---- MODULE Spec2Model ----
(***************************************************************************)
(* Model of json-to-md-tree.                                               *)
(*                                                                         *)
(*   src/app.py   build_tree / convert_json_to_md   (parsed JSON -> tree)  *)
(*   src/app2.py  extract_const_block, find_property_keys,                 *)
(*                build_tree_from_keys, tree_to_md_lines  (TS const -> tree)*)
(*                                                                         *)
(* The box-drawing characters of the source are written with ASCII        *)
(* stand-ins, one character for one character:                             *)
(*      U+2502 (vertical bar)        is  |                                 *)
(*      U+251C (tee)                 is  +                                 *)
(*      U+2514 (corner)              is  L                                 *)
(*      U+2500 (horizontal bar)      is  -                                 *)
(*      the backquote of the fence   is  '                                 *)
(* so the source's three literals are  "|   ",  "+-- "  and  "L-- ".       *)
(***************************************************************************)
EXTENDS Integers, Sequences, FiniteSets, TLC

VARIABLES
    \* src/app.py
    data,          \* the value handed to build_tree
    indent,        \* the depth argument of that call
    tree_lines,    \* the list the call returns
    md_output,     \* the text convert_json_to_md returns
    pcR,
    \* src/app2.py, extract_const_block
    source,        \* the text of the file
    const_name,
    lines,         \* source.splitlines()
    li,            \* how many of the lines the for loop has taken
    in_const,
    block_lines,
    returned,      \* the list extract_const_block returns
    error,         \* the exception raised, "none" while there is none
    pcE,
    \* src/app2.py, find_property_keys to tree_to_md_lines
    records,
    base_indent,
    indent_step,
    stack,
    tree,
    ri,            \* how many of the records the for loop has taken
    md_lines,      \* the lines tree_to_md_lines returns
    pcB

varsR == <<data, indent, tree_lines, md_output, pcR>>
varsE == <<source, lines, li, in_const, returned, pcE>>
varsB == <<records, base_indent, indent_step, stack, tree, ri, md_lines, pcB>>
vars == <<varsR, varsE, varsB, block_lines, const_name, error>>

-----------------------------------------------------------------------------
(* Bounds of the model.                                                    *)

\* Total number of keys and indices, over all levels, of an input value.
MaxEntries == 3

\* Lines of a source text.
MaxLines == 3

\* Lines of an object body.
MaxBodyLines == 4

\* Records handed to build_tree_from_keys, and the widest indentation of one.
MaxRecords == 3
MaxIndent == 4

-----------------------------------------------------------------------------
(* src/app.py : values                                                     *)

\* JSON values as json.load builds them: dict (ordered, unique keys), list,
\* and everything else.
Scalars == {1, 2}
Keys == {"a", "b", "c", "value"}

Scalar(v) == [t |-> "scalar", v |-> v]
Dict(items) == [t |-> "dict", items |-> items]
List(items) == [t |-> "list", items |-> items]
Entry(k, v) == [key |-> k, value |-> v]

IsDict(d) == d.t = "dict"
IsList(d) == d.t = "list"
IsContainer(d) == d.t \in {"dict", "list"}

\* The input values: every value with at most MaxEntries keys and indices in
\* all, over all levels.
KeySeqs(w) ==
    {ks \in [1..w -> Keys] : \A i, j \in 1..w : i # j => ks[i] # ks[j]}

AllKeySeqs == UNION {KeySeqs(w) : w \in 0..Cardinality(Keys)}

RECURSIVE Zip(_, _)
Zip(ks, s) ==
    IF s = <<>> THEN <<>>
    ELSE <<Entry(Head(ks), Head(s))>> \o Zip(Tail(ks), Tail(s))

RECURSIVE ValuesOfSize(_)
RECURSIVE ItemSeqs(_)
RECURSIVE ItemSeqsFrom(_, _)

\* the item lists that hold n entries, counting those of the items themselves;
\* ItemSeqsFrom(n, m): those whose first item holds at least m entries
ItemSeqsFrom(n, m) ==
    IF m > n - 1 THEN {}
    ELSE {<<v>> \o rest : v \in ValuesOfSize(m), rest \in ItemSeqs(n - 1 - m)}
         \cup ItemSeqsFrom(n, m + 1)

ItemSeqs(n) == IF n = 0 THEN {<<>>} ELSE ItemSeqsFrom(n, 0)

ValuesOfSize(n) ==
    (IF n = 0 THEN {Scalar(v) : v \in Scalars} ELSE {})
    \cup {List(s) : s \in ItemSeqs(n)}
    \cup {Dict(Zip(p[2], p[1]))
             : p \in {q \in ItemSeqs(n) \X AllKeySeqs : Len(q[1]) = Len(q[2])}}


-----------------------------------------------------------------------------
(* src/app.py : build_tree                                                 *)

\* Python's  s * n : the empty string when n <= 0.
RECURSIVE Rep(_, _)
Rep(s, n) == IF n <= 0 THEN "" ELSE s \o Rep(s, n - 1)

Connector(is_last) == IF is_last THEN "L-- " ELSE "+-- "

DictEntryLine(ind, connector, key) ==
    IF ind = 0 THEN key ELSE Rep("|   ", ind - 1) \o connector \o key

ListEntryLine(ind, connector, idx) ==
    Rep("|   ", ind - 1) \o connector \o "[" \o ToString(idx) \o "]"

\* a variant of LeafLine: the marker indented like the key line above it
LeafLine_KeyDepth(ind) == Rep("|   ", ind - 1) \o "L-- value"

LeafLine(ind) == Rep("|   ", ind) \o "L-- value"

RECURSIVE build_tree(_, _)
RECURSIVE DictLoop(_, _, _)
RECURSIVE ListLoop(_, _, _)

\* a variant of DictLoop: the marker shows the scalar instead of the word "value"
DictLoop_ScalarText(items, ind, i) ==
    IF i >= Len(items) THEN <<>>
    ELSE LET key == items[i + 1].key
             value == items[i + 1].value
             is_last == (i = Len(items) - 1)
             connector == Connector(is_last)
         IN  <<DictEntryLine(ind, connector, key)>>
             \o (IF IsContainer(value)
                    THEN build_tree(value, ind + 1)
                    ELSE <<Rep("|   ", ind) \o "L-- " \o ToString(value.v)>>)
             \o DictLoop(items, ind, i + 1)

\* for i, (key, value) in enumerate(data.items()); i is 0-based as in the source
DictLoop(items, ind, i) ==
    IF i >= Len(items) THEN <<>>
    ELSE LET key == items[i + 1].key
             value == items[i + 1].value
             is_last == (i = Len(items) - 1)
             connector == Connector(is_last)
         IN  <<DictEntryLine(ind, connector, key)>>
             \o (IF IsContainer(value)
                    THEN build_tree(value, ind + 1)
                    ELSE <<LeafLine(ind)>>)
             \o DictLoop(items, ind, i + 1)

\* a variant of ListLoop: no marker line under a scalar item
ListLoop_NoLeaf(items, ind, idx) ==
    IF idx >= Len(items) THEN <<>>
    ELSE LET item == items[idx + 1]
             is_last == (idx = Len(items) - 1)
             connector == Connector(is_last)
         IN  <<ListEntryLine(ind, connector, idx)>>
             \o (IF IsContainer(item)
                    THEN build_tree(item, ind + 1)
                    ELSE <<>>)
             \o ListLoop(items, ind, idx + 1)

\* for idx, item in enumerate(data)
ListLoop(items, ind, idx) ==
    IF idx >= Len(items) THEN <<>>
    ELSE LET item == items[idx + 1]
             is_last == (idx = Len(items) - 1)
             connector == Connector(is_last)
         IN  <<ListEntryLine(ind, connector, idx)>>
             \o (IF IsContainer(item)
                    THEN build_tree(item, ind + 1)
                    ELSE <<LeafLine(ind)>>)
             \o ListLoop(items, ind, idx + 1)

build_tree(d, ind) ==
    IF IsDict(d) THEN DictLoop(d.items, ind, 0)
    ELSE IF IsList(d) THEN ListLoop(d.items, ind, 0)
    ELSE <<>>

\* "\n".join(tree_lines)
RECURSIVE JoinNL(_)
JoinNL(ls) ==
    IF ls = <<>> THEN ""
    ELSE IF Len(ls) = 1 THEN ls[1]
    ELSE ls[1] \o "\n" \o JoinNL(Tail(ls))

convert_json_to_md(d) == "'''text\n" \o JoinNL(build_tree(d, 0)) \o "\n'''"

-----------------------------------------------------------------------------
(* src/app.py as a state machine: one call frame of build_tree at a time.  *)
(* pcR = "call": the frame build_tree(data, indent) is entered;            *)
(* "returned": it has returned tree_lines; "done": convert_json_to_md has  *)
(* wrapped the root frame's lines.                                         *)

InitR ==
    /\ \E n \in 0..MaxEntries : data \in ValuesOfSize(n)
    /\ indent = 0
    /\ tree_lines = <<>>
    /\ md_output = ""
    /\ pcR = "call"

\* the state of a program that is not run
IdleR ==
    /\ data = <<>>
    /\ indent = 0
    /\ tree_lines = <<>>
    /\ md_output = ""
    /\ pcR = "idle"

IdleEP ==
    /\ source = <<>>
    /\ lines = <<>>
    /\ li = 0
    /\ in_const = FALSE
    /\ returned = <<>>
    /\ pcE = "idle"

IdleE == IdleEP /\ block_lines = <<>>

IdleB ==
    /\ records = <<>>
    /\ base_indent = 0
    /\ indent_step = 0
    /\ stack = <<>>
    /\ tree = <<>>
    /\ ri = 0
    /\ md_lines = <<>>

\* the frame runs to its return
BuildTree ==
    /\ pcR = "call"
    /\ tree_lines' = build_tree(data, indent)
    /\ pcR' = "returned"
    /\ UNCHANGED <<data, indent, md_output>>
    /\ UNCHANGED <<varsE, varsB, block_lines, const_name, error>>

\* line 22: the frame calls build_tree(value, indent + 1) for a dict entry
RecurseDict ==
    /\ pcR = "call"
    /\ IsDict(data)
    /\ \E i \in 1..Len(data.items) :
          /\ IsContainer(data.items[i].value)
          /\ data' = data.items[i].value
    /\ indent' = indent + 1
    /\ UNCHANGED <<tree_lines, md_output, pcR>>
    /\ UNCHANGED <<varsE, varsB, block_lines, const_name, error>>

\* line 35: the same for a list item
RecurseList ==
    /\ pcR = "call"
    /\ IsList(data)
    /\ \E i \in 1..Len(data.items) :
          /\ IsContainer(data.items[i])
          /\ data' = data.items[i]
    /\ indent' = indent + 1
    /\ UNCHANGED <<tree_lines, md_output, pcR>>
    /\ UNCHANGED <<varsE, varsB, block_lines, const_name, error>>

\* lines 47-48, on the return of the root frame
ConvertJsonToMd ==
    /\ pcR = "returned"
    /\ indent = 0
    /\ md_output' = convert_json_to_md(data)
    /\ pcR' = "done"
    /\ UNCHANGED <<data, indent, tree_lines>>
    /\ UNCHANGED <<varsE, varsB, block_lines, const_name, error>>

NextR == BuildTree \/ RecurseDict \/ RecurseList \/ ConvertJsonToMd

InitRender ==
    /\ InitR /\ IdleE /\ IdleB
    /\ const_name = <<>> /\ error = "none" /\ pcB = "idle"

SpecRender == InitRender /\ [][NextR]_vars

-----------------------------------------------------------------------------
(* Properties of build_tree.                                               *)

\* the number of keys and indices of a value, over all levels
RECURSIVE CountEntries(_)
CountEntries(d) ==
    IF ~IsContainer(d) THEN 0
    ELSE LET child(i) == IF IsDict(d) THEN d.items[i].value ELSE d.items[i]
             RECURSIVE Sum(_)
             Sum(i) == IF i > Len(d.items) THEN 0
                       ELSE 1 + CountEntries(child(i)) + Sum(i + 1)
         IN  Sum(1)

\* the number of entries, over all levels, whose value is a scalar
RECURSIVE CountScalarEntries(_)
CountScalarEntries(d) ==
    IF ~IsContainer(d) THEN 0
    ELSE LET child(i) == IF IsDict(d) THEN d.items[i].value ELSE d.items[i]
             RECURSIVE Sum(_)
             Sum(i) == IF i > Len(d.items) THEN 0
                       ELSE (IF IsContainer(child(i))
                                THEN CountScalarEntries(child(i)) ELSE 1)
                            + Sum(i + 1)
         IN  Sum(1)

\* the keys of the dicts of a value, over all levels
RECURSIVE KeysOf(_)
KeysOf(d) ==
    IF ~IsContainer(d) THEN {}
    ELSE LET child(i) == IF IsDict(d) THEN d.items[i].value ELSE d.items[i]
         IN  (IF IsDict(d) THEN {d.items[i].key : i \in 1..Len(d.items)} ELSE {})
             \cup UNION {KeysOf(child(i)) : i \in 1..Len(d.items)}

\* a line that reads as a leaf marker: any number of "|   " and then "L-- value"
IsLeafMarker(line) == \E k \in 0..(MaxEntries + 2) : line = Rep("|   ", k) \o "L-- value"

MarkerLines(ls) == Cardinality({j \in 1..Len(ls) : IsLeafMarker(ls[j])})
OtherLines(ls) == Cardinality({j \in 1..Len(ls) : ~IsLeafMarker(ls[j])})

\* where the i-th entry of the frame's container has its line in the output
RECURSIVE EntryPos(_, _, _)
EntryPos(d, ind, i) ==
    IF i = 1 THEN 1
    ELSE LET prev == IF IsDict(d) THEN d.items[i - 1].value ELSE d.items[i - 1]
         IN  EntryPos(d, ind, i - 1) + 1
             + (IF IsContainer(prev) THEN Len(build_tree(prev, ind + 1)) ELSE 1)

C1Input == Dict(<<Entry("a", Dict(<<Entry("b", Scalar(1)), Entry("c", Scalar(2))>>))>>)

\* C1 as the spec states it: {"a": {"b": 1, "c": 2}} renders at depth 0 to
\* a / +-- b / |   L-- value / L-- c / and a last marker line that starts with
\* four spaces.
C1_FourSpaceMarker ==
    (pcR = "returned" /\ indent = 0 /\ data = C1Input)
        => tree_lines = <<"a", "+-- b", "|   L-- value", "L-- c", "    L-- value">>

\* C1, amended: {"a": {"b": 1, "c": 2}} renders at depth 0 to exactly five
\* lines, and the last marker line starts with "|   " like the first one.
C1_BarMarker ==
    (pcR = "returned" /\ indent = 0 /\ data = C1Input)
        => tree_lines = <<"a", "+-- b", "|   L-- value", "L-- c", "|   L-- value">>

C1_Witness == pcR = "returned" /\ indent = 0 /\ data = C1Input /\ Len(tree_lines) = 5

AllScalar(d) == \A i \in 1..Len(d.items) : ~IsContainer(d.items[i].value)

\* C3: a dict of scalars rendered at depth d gives two lines per entry, the
\* second of each pair being "|   " d times and then "L-- value", whatever the
\* scalar and whether or not the entry is the last; no other line is that marker.
C3_OneMarkerPerEntry ==
    (pcR = "returned" /\ IsDict(data) /\ AllScalar(data))
        => LET n == Len(data.items)
               marker == Rep("|   ", indent) \o "L-- value"
           IN  /\ Len(tree_lines) = 2 * n
               /\ \A i \in 1..n : tree_lines[2 * i] = marker
               /\ \A i \in 1..n : tree_lines[2 * i - 1] # marker
               /\ Cardinality({j \in 1..Len(tree_lines) : tree_lines[j] = marker}) = n

C3_Witness ==
    /\ pcR = "returned" /\ indent >= 1 /\ IsDict(data) /\ AllScalar(data)
    /\ Len(data.items) = 2
    /\ data.items[1].value # data.items[2].value
    /\ tree_lines[2] = tree_lines[4]

\* C4 as the spec states it: the lines that are not leaf markers number the
\* keys and indices of the value, and the leaf markers number its scalar entries.
C4_CountsByText ==
    pcR = "returned"
        => /\ OtherLines(tree_lines) = CountEntries(data)
           /\ MarkerLines(tree_lines) = CountScalarEntries(data)

\* C4, amended: the output has one line per key or index and one more per
\* scalar entry; read as text, the two counts are those of the claim when no
\* key is "value" or itself the text of a leaf marker (the line of a last key
\* "value" below the root is the text of a leaf marker).
C4_CountsUnlessValueKey ==
    pcR = "returned"
        => /\ Len(tree_lines) = CountEntries(data) + CountScalarEntries(data)
           /\ OtherLines(tree_lines) <= CountEntries(data)
           /\ (\A k \in KeysOf(data) : k # "value" /\ ~IsLeafMarker(k))
                => /\ OtherLines(tree_lines) = CountEntries(data)
                   /\ MarkerLines(tree_lines) = CountScalarEntries(data)

C4_Witness ==
    /\ pcR = "returned" /\ indent = 0
    /\ "value" \notin KeysOf(data)
    /\ CountEntries(data) = 3 /\ CountScalarEntries(data) = 1
    /\ IsDict(data) /\ Len(data.items) = 2
    /\ IsList(data.items[1].value) /\ data.items[1].value.items = <<>>
    /\ OtherLines(tree_lines) = 3

\* C8 as the spec states it: at depth 0 every entry line is the bare key, or
\* the bare [index] for a root list.
C8_RootEntriesBare ==
    (pcR = "returned" /\ indent = 0 /\ IsContainer(data))
        => \A i \in 1..Len(data.items) :
              tree_lines[EntryPos(data, 0, i)]
                  = (IF IsDict(data) THEN data.items[i].key
                     ELSE "[" \o ToString(i - 1) \o "]")

-----------------------------------------------------------------------------
(* src/app2.py : text.  A str is a sequence of one-character strings.      *)

WordChars ==
    {"a", "b", "c", "d", "e", "f", "g", "h", "i", "j", "k", "l", "m",
     "n", "o", "p", "q", "r", "s", "t", "u", "v", "w", "x", "y", "z",
     "A", "B", "C", "D", "E", "F", "G", "H", "I", "J", "K", "L", "M",
     "N", "O", "P", "Q", "R", "S", "T", "U", "V", "W", "X", "Y", "Z",
     "0", "1", "2", "3", "4", "5", "6", "7", "8", "9", "_"}

\* \w and \s of the re module
IsWordChar(c) == c \in WordChars
IsSpace(c) == c \in {" ", "\t", "\n", "\r"}

\* s[i..j] (1-based, inclusive) is all whitespace; true of an empty range
AllSpace(s, i, j) == \A p \in i..j : IsSpace(s[p])

\* the literal lit stands in s at position i
HasAt(s, i, lit) ==
    /\ i >= 1
    /\ i + Len(lit) - 1 <= Len(s)
    /\ \A p \in 1..Len(lit) : s[i + p - 1] = lit[p]

\* \b just before position i (i = Len(s) + 1: at the end)
WordBoundary(s, i) ==
    (i > 1 /\ IsWordChar(s[i - 1])) # (i <= Len(s) /\ IsWordChar(s[i]))

\* str.splitlines(): the pieces between "\n", without a last empty piece
RECURSIVE SplitFrom(_, _, _)
SplitFrom(s, i, cur) ==
    IF i > Len(s) THEN (IF cur = <<>> THEN <<>> ELSE <<cur>>)
    ELSE IF s[i] = "\n" THEN <<cur>> \o SplitFrom(s, i + 1, <<>>)
    ELSE SplitFrom(s, i + 1, Append(cur, s[i]))

splitlines(s) == SplitFrom(s, 1, <<>>)

\* "\n".join(ls) on sequences of characters
RECURSIVE JoinLines(_)
JoinLines(ls) ==
    IF ls = <<>> THEN <<>>
    ELSE IF Len(ls) = 1 THEN ls[1]
    ELSE ls[1] \o <<"\n">> \o JoinLines(Tail(ls))

-----------------------------------------------------------------------------
(* src/app2.py : extract_const_block                                       *)

\* const_pattern.search(line), const_pattern = \bconst\s+<name>\s*=
ConstPatternSearch(line, name) ==
    \E i \in 1..Len(line) :
        /\ WordBoundary(line, i)
        /\ HasAt(line, i, <<"c", "o", "n", "s", "t">>)
        /\ \E j \in (i + 6)..Len(line) :
              /\ AllSpace(line, i + 5, j - 1)
              /\ HasAt(line, j, name)
              /\ \E k \in (j + Len(name))..Len(line) :
                    /\ AllSpace(line, j + Len(name), k - 1)
                    /\ line[k] = "="

\* re.match(r"\s*};\s*$", line)
CloseMatch(line) ==
    \E j \in 1..Len(line) :
        /\ AllSpace(line, 1, j - 1)
        /\ HasAt(line, j, <<"}", ";">>)
        /\ AllSpace(line, j + 2, Len(line))

\* re.search(r"\bexport\s+default\b", line)
ExportDefaultSearch(line) ==
    \E i \in 1..Len(line) :
        /\ WordBoundary(line, i)
        /\ HasAt(line, i, <<"e", "x", "p", "o", "r", "t">>)
        /\ \E j \in (i + 7)..Len(line) :
              /\ AllSpace(line, i + 6, j - 1)
              /\ HasAt(line, j, <<"d", "e", "f", "a", "u", "l", "t">>)
              /\ WordBoundary(line, j + 7)

\* line 25: the test that ends the scan
IsTerminator(line) == CloseMatch(line) \/ ExportDefaultSearch(line)

\* The lines the source texts are made of.
\* "const X = {"
LineStart == <<"c", "o", "n", "s", "t", " ", "X", " ", "=", " ", "{">>
\* "export const  X={"
LineStartWide == <<"e", "x", "p", "o", "r", "t", " ", "c", "o", "n", "s", "t", " ", " ", "X", "=", "{">>
\* "const Xy = {"
LineOtherName == <<"c", "o", "n", "s", "t", " ", "X", "y", " ", "=", " ", "{">>
\* "  a: 1,"
LineBody == <<" ", " ", "a", ":", " ", "1", ",">>
\* "};"
LineClose == <<"}", ";">>
\* "  }; "
LineCloseWide == <<" ", " ", "}", ";", " ">>
\* "}; //"
LineNotClose == <<"}", ";", " ", "/", "/">>
\* "export default X;"
LineExport == <<"e", "x", "p", "o", "r", "t", " ", "d", "e", "f", "a", "u", "l", "t", " ", "X", ";">>
\* ""
LineEmpty == <<>>

SourceLines ==
    {LineStart,
     LineStartWide,
     LineOtherName,
     LineBody,
     LineClose,
     LineCloseWide,
     LineNotClose,
     LineExport,
     LineEmpty}

\* the name asked for
ConstX == <<"X">>

\* the texts of at most n lines
RECURSIVE LineSeqs(_)
LineSeqs(n) ==
    IF n = 0 THEN {<<>>}
    ELSE LineSeqs(n - 1)
         \cup {Append(ls, l) : ls \in {q \in LineSeqs(n - 1) : Len(q) = n - 1},
                               l \in SourceLines}

InitE ==
    /\ \E ls \in LineSeqs(MaxLines) : source = JoinLines(ls)
    /\ const_name = ConstX
    /\ lines = <<>>
    /\ li = 0
    /\ in_const = FALSE
    /\ block_lines = <<>>
    /\ error = "none"
    /\ returned = <<>>
    /\ pcE = "start"

\* lines 12-16
Split ==
    /\ pcE = "start"
    /\ lines' = splitlines(source)
    /\ pcE' = "loop"
    /\ UNCHANGED <<source, const_name, li, in_const, block_lines, error, returned>>
    /\ UNCHANGED <<varsR, varsB>>

\* lines 19-22, the pattern not found in the line
LoopSkip ==
    /\ pcE = "loop" /\ li < Len(lines)
    /\ ~in_const
    /\ ~ConstPatternSearch(lines[li + 1], const_name)
    /\ li' = li + 1
    /\ UNCHANGED <<source, const_name, lines, in_const, block_lines, error, returned, pcE>>
    /\ UNCHANGED <<varsR, varsB>>

\* lines 19-22, the pattern found
LoopEnter ==
    /\ pcE = "loop" /\ li < Len(lines)
    /\ ~in_const
    /\ ConstPatternSearch(lines[li + 1], const_name)
    /\ in_const' = TRUE
    /\ li' = li + 1
    /\ UNCHANGED <<source, const_name, lines, block_lines, error, returned, pcE>>
    /\ UNCHANGED <<varsR, varsB>>

\* lines 25-26
LoopBreak ==
    /\ pcE = "loop" /\ li < Len(lines)
    /\ in_const
    /\ IsTerminator(lines[li + 1])
    /\ pcE' = "after"
    /\ UNCHANGED <<source, const_name, lines, li, in_const, block_lines, error, returned>>
    /\ UNCHANGED <<varsR, varsB>>

\* a variant of LoopAppend: a line with the declaration pattern starts the
\* block again
LoopAppend_Restart ==
    /\ pcE = "loop" /\ li < Len(lines)
    /\ in_const
    /\ ~IsTerminator(lines[li + 1])
    /\ block_lines' = IF ConstPatternSearch(lines[li + 1], const_name)
                         THEN <<>> ELSE Append(block_lines, lines[li + 1])
    /\ li' = li + 1
    /\ UNCHANGED <<source, const_name, lines, in_const, error, returned, pcE>>
    /\ UNCHANGED <<varsR, varsB>>

\* line 28
LoopAppend ==
    /\ pcE = "loop" /\ li < Len(lines)
    /\ in_const
    /\ ~IsTerminator(lines[li + 1])
    /\ block_lines' = Append(block_lines, lines[li + 1])
    /\ li' = li + 1
    /\ UNCHANGED <<source, const_name, lines, in_const, error, returned, pcE>>
    /\ UNCHANGED <<varsR, varsB>>

\* the for loop runs out of lines
LoopEnd ==
    /\ pcE = "loop" /\ li = Len(lines)
    /\ pcE' = "after"
    /\ UNCHANGED <<source, const_name, lines, li, in_const, block_lines, error, returned>>
    /\ UNCHANGED <<varsR, varsB>>

\* lines 30-31
RaiseNotFound ==
    /\ pcE = "after"
    /\ ~in_const
    /\ error' = "not_found"
    /\ pcE' = "raised"
    /\ UNCHANGED <<source, const_name, lines, li, in_const, block_lines, returned>>
    /\ UNCHANGED <<varsR, varsB>>

\* a variant of RaiseEmpty: an empty body is not told from a missing one
RaiseEmpty_AsNotFound ==
    /\ pcE = "after"
    /\ in_const
    /\ block_lines = <<>>
    /\ error' = "not_found"
    /\ pcE' = "raised"
    /\ UNCHANGED <<source, const_name, lines, li, in_const, block_lines, returned>>
    /\ UNCHANGED <<varsR, varsB>>

\* lines 33-34
RaiseEmpty ==
    /\ pcE = "after"
    /\ in_const
    /\ block_lines = <<>>
    /\ error' = "empty_body"
    /\ pcE' = "raised"
    /\ UNCHANGED <<source, const_name, lines, li, in_const, block_lines, returned>>
    /\ UNCHANGED <<varsR, varsB>>

\* line 36
ReturnBlock ==
    /\ pcE = "after"
    /\ in_const
    /\ block_lines # <<>>
    /\ returned' = block_lines
    /\ pcE' = "returned"
    /\ UNCHANGED <<source, const_name, lines, li, in_const, block_lines, error>>
    /\ UNCHANGED <<varsR, varsB>>

NextE ==
    \/ Split \/ LoopSkip \/ LoopEnter \/ LoopBreak \/ LoopAppend \/ LoopEnd
    \/ RaiseNotFound \/ RaiseEmpty \/ ReturnBlock

InitExtract == InitE /\ IdleR /\ IdleB /\ pcB = "idle"

SpecExtract == InitExtract /\ [][NextE]_vars

-----------------------------------------------------------------------------
(* Properties of extract_const_block.                                      *)

\* the first line of the text with the declaration pattern; 0 when there is none
FirstStart ==
    LET L == splitlines(source)
        S == {i \in 1..Len(L) : ConstPatternSearch(L[i], const_name)}
    IN  IF S = {} THEN 0 ELSE CHOOSE i \in S : \A j \in S : i <= j

\* the first line after line s that closes the object or holds a default
\* export; one past the last line when there is none
FirstStop(s) ==
    LET L == splitlines(source)
        T == {i \in (s + 1)..Len(L) : CloseMatch(L[i]) \/ ExportDefaultSearch(L[i])}
    IN  IF T = {} THEN Len(L) + 1 ELSE CHOOSE i \in T : \A j \in T : i <= j

Min(a, b) == IF a <= b THEN a ELSE b

\* C6: not-found exactly when no line has the declaration pattern; empty-body
\* whenever the first such line is the last line or is followed at once by a
\* closing or default-export line; an error returns no lines, anything else
\* returns a list that is not empty.
C6_ErrorsOfExtract ==
    pcE \in {"raised", "returned"}
        => LET L == splitlines(source)
               s == FirstStart
           IN  /\ (error = "not_found") <=> (s = 0)
               /\ (s # 0 /\ FirstStop(s) = s + 1) => error = "empty_body"
               /\ error # "none" => (pcE = "raised" /\ returned = <<>>)
               /\ error = "none" => (pcE = "returned" /\ returned # <<>>)
               /\ (error = "empty_body") => (s # 0 /\ FirstStop(s) = s + 1)

C6_Witness ==
    /\ pcE = "raised" /\ error = "empty_body"
    /\ FirstStart >= 2
    /\ FirstStop(FirstStart) <= Len(lines)
    /\ ExportDefaultSearch(lines[FirstStop(FirstStart)])

\* C9: at every point of the scan the collected lines are the run of lines
\* after the first line with the declaration pattern, as far as the scan has
\* come and never as far as the first stopping line; nothing is collected before
\* that first line; what is returned is the whole run.
C9_BlockIsRunAfterFirstStart ==
    pcE # "start"
        => LET L == splitlines(source)
               s == FirstStart
           IN  /\ lines = L
               /\ (s = 0 \/ li < s) => (~in_const /\ block_lines = <<>>)
               /\ (s # 0 /\ li >= s)
                    => /\ in_const
                       /\ li < FirstStop(s)
                       /\ block_lines = SubSeq(L, s + 1, li)
               /\ pcE = "returned" => returned = SubSeq(L, s + 1, FirstStop(s) - 1)
               /\ pcE = "after" => li = Min(Len(L), FirstStop(s) - 1) \/ s = 0

C9_Witness ==
    /\ pcE = "returned"
    /\ FirstStart # 0
    /\ FirstStop(FirstStart) <= Len(lines)
    /\ \E i \in 1..Len(returned) : ConstPatternSearch(returned[i], const_name)

-----------------------------------------------------------------------------
(* src/app2.py : find_property_keys                                        *)

IdentChars == WordChars \cup {"$"}
QuoteChars == {"\"", "'"}

\* the number of leading whitespace characters: what (\s*) takes at the start
\* of a line whose next character is no whitespace
RECURSIVE LeadingSpaces(_)
LeadingSpaces(line) ==
    IF line # <<>> /\ IsSpace(Head(line)) THEN 1 + LeadingSpaces(Tail(line)) ELSE 0

\* str.strip()
RECURSIVE RStrip(_)
RStrip(s) ==
    IF s # <<>> /\ IsSpace(s[Len(s)]) THEN RStrip(SubSeq(s, 1, Len(s) - 1)) ELSE s

strip(s) == RStrip(SubSeq(s, LeadingSpaces(s) + 1, Len(s)))

\* the last position of the run of characters of C that starts at i (i - 1
\* when s[i] is not in C): what a greedy [C]+ takes
RECURSIVE RunEnd(_, _, _)
RunEnd(s, i, C) ==
    IF i <= Len(s) /\ s[i] \in C THEN RunEnd(s, i + 1, C) ELSE i - 1

\* \s*: after position e
ColonFollows(line, e) ==
    \E k \in (e + 1)..Len(line) : AllSpace(line, e + 1, k - 1) /\ line[k] = ":"

NoMatch == [matched |-> FALSE]

\* ident_key_re.match(line):  ^(\s*)([A-Za-z0-9_$]+)\s*:
IdentKeyMatch(line) ==
    LET n == LeadingSpaces(line)
        e == RunEnd(line, n + 1, IdentChars)
    IN  IF e >= n + 1 /\ ColonFollows(line, e)
           THEN [matched |-> TRUE, group1 |-> SubSeq(line, 1, n),
                 group2 |-> SubSeq(line, n + 1, e)]
           ELSE NoMatch

\* quoted_key_re.match(line):  ^(\s*)["']([^"']+)["']\s*:
QuotedKeyMatch(line) ==
    LET n == LeadingSpaces(line)
        others == {line[p] : p \in 1..Len(line)} \ QuoteChars
        e == RunEnd(line, n + 2, others)
    IN  IF /\ n + 1 <= Len(line) /\ line[n + 1] \in QuoteChars
           /\ e >= n + 2
           /\ e + 1 <= Len(line) /\ line[e + 1] \in QuoteChars
           /\ ColonFollows(line, e + 1)
           THEN [matched |-> TRUE, group1 |-> SubSeq(line, 1, n),
                 group2 |-> SubSeq(line, n + 2, e)]
           ELSE NoMatch

\* lines 57-62: the line is blank or an obvious comment
Skipped(line) ==
    LET stripped == strip(line)
    IN  \/ stripped = <<>>
        \/ HasAt(stripped, 1, <<"/", "/">>)
        \/ HasAt(stripped, 1, <<"/", "*">>)
        \/ HasAt(stripped, 1, <<"*">>)

\* lines 56-73: the records of the lines from position i on
RECURSIVE KeyRecords(_, _)
KeyRecords(ls, i) ==
    IF i > Len(ls) THEN <<>>
    ELSE LET line == ls[i]
             m1 == IdentKeyMatch(line)
             m == IF m1.matched THEN m1 ELSE QuotedKeyMatch(line)
         IN  (IF Skipped(line) \/ ~m.matched THEN <<>>
              ELSE <<[indent |-> Len(m.group1), key |-> m.group2]>>)
             \o KeyRecords(ls, i + 1)

-----------------------------------------------------------------------------
(* src/app2.py : build_tree_from_keys                                      *)
(* The nested dicts are kept as a map from the path of a dict (the keys    *)
(* from const_name down to it) to the keys it holds, in insertion order;   *)
(* a stack entry holds its dict by that path.                              *)

SeqMin(S) == CHOOSE x \in S : \A y \in S : x <= y
SeqMax(S) == CHOOSE x \in S : \A y \in S : y <= x
Range(s) == {s[i] : i \in 1..Len(s)}

\* line 90
BaseIndent(recs) == SeqMin({recs[i].indent : i \in 1..Len(recs)})

\* a variant of IndentStep: the largest difference instead of the smallest
IndentStep_Largest(recs, base) ==
    LET diffs == {recs[i].indent - base : i \in 1..Len(recs)} \ {0}
    IN  IF diffs # {} THEN SeqMax(diffs) ELSE 2

\* lines 93-96
IndentStep(recs, base) ==
    LET diffs == {d \in {recs[i].indent - base : i \in 1..Len(recs)} : d > 0}
    IN  IF diffs # {} THEN SeqMin(diffs) ELSE 2

\* lines 104-106
LevelOf(ind, base, step) ==
    LET level == 1 + ((ind - base) \div step)
    IN  IF level < 1 THEN 1 ELSE level

\* a variant of PopStack: an entry of the same level is kept
RECURSIVE PopStack_KeepEqual(_, _)
PopStack_KeepEqual(stk, level) ==
    IF stk # <<>> /\ stk[Len(stk)].level > level
       THEN PopStack_KeepEqual(SubSeq(stk, 1, Len(stk) - 1), level)
       ELSE stk

\* lines 109-110
RECURSIVE PopStack(_, _)
PopStack(stk, level) ==
    IF stk # <<>> /\ stk[Len(stk)].level >= level
       THEN PopStack(SubSeq(stk, 1, Len(stk) - 1), level)
       ELSE stk

IsPrefix(p, q) == Len(p) <= Len(q) /\ SubSeq(q, 1, Len(p)) = p

\* a variant of Attach: parent[key] = {} whether or not the key is there
Attach_Overwrite(t, parent, key) ==
    LET child == Append(parent, key)
        kept == {p \in DOMAIN t : ~(IsPrefix(child, p) /\ p # child)}
    IN  [p \in kept \cup {child} |->
            IF p = child THEN <<>>
            ELSE IF p = parent /\ key \notin Range(t[parent])
                    THEN Append(t[parent], key)
            ELSE t[p]]

\* lines 114-115
Attach(t, parent, key) ==
    IF key \in Range(t[parent]) THEN t
    ELSE LET child == Append(parent, key)
         IN  [p \in DOMAIN t \cup {child} |->
                 IF p = child THEN <<>>
                 ELSE IF p = parent THEN Append(t[parent], key)
                 ELSE t[p]]

-----------------------------------------------------------------------------
(* src/app2.py : tree_to_md_lines                                          *)

\* line 135
ChildPrefix(prefix, is_last) ==
    prefix \o (IF is_last THEN <<" ", " ", " ", " ">> ELSE <<"|", " ", " ", " ">>)

\* lines 128-129
NodeLine(name, prefix, is_last) ==
    LET connector == IF is_last THEN <<"L", "-", "-", " ">> ELSE <<"+", "-", "-", " ">>
    IN  IF prefix # <<>> THEN prefix \o connector \o name ELSE name

RECURSIVE tree_to_md_lines(_, _, _, _)
RECURSIVE ChildLines(_, _, _, _)

\* lines 140-142: the lines of the children from position idx (0-based) on
ChildLines(t, path, child_prefix, idx) ==
    LET children == t[path]
    IN  IF idx >= Len(children) THEN <<>>
        ELSE LET last_child == (idx = Len(children) - 1)
             IN  tree_to_md_lines(t, Append(path, children[idx + 1]),
                                  child_prefix, last_child)
                 \o ChildLines(t, path, child_prefix, idx + 1)

\* the dict at path of t, under the name that ends the path
tree_to_md_lines(t, path, prefix, is_last) ==
    <<NodeLine(path[Len(path)], prefix, is_last)>>
    \o ChildLines(t, path, ChildPrefix(prefix, is_last), 0)

-----------------------------------------------------------------------------
(* The second half of convert_ts_const_to_md as a state machine:           *)
(* find_property_keys, then build_tree_from_keys record by record, then    *)
(* tree_to_md_lines.                                                       *)

\* "root"
ConstRoot == <<"r", "o", "o", "t">>

\* the keys of the records
RecordKeys == {<<"a">>, <<"b">>}

\* The lines the bodies are made of.
\* "  foo: 1"
BodyFoo == <<" ", " ", "f", "o", "o", ":", " ", "1">>
\* "  bar: {"
BodyBar == <<" ", " ", "b", "a", "r", ":", " ", "{">>
\* "    baz: 2"
BodyBaz == <<" ", " ", " ", " ", "b", "a", "z", ":", " ", "2">>
\* "  }"
BodyBrace == <<" ", " ", "}">>
\* "  // x: 1"
BodyComment == <<" ", " ", "/", "/", " ", "x", ":", " ", "1">>
\* "<TAB>'foo' : 3"
BodyQuoted == <<"\t", "'", "f", "o", "o", "'", " ", ":", " ", "3">>

BodyLines == {BodyFoo, BodyBar, BodyBaz, BodyBrace, BodyComment, BodyQuoted}

RecordSet == {[indent |-> n, key |-> k] : n \in 0..MaxIndent, k \in RecordKeys}

\* the record lists of at most n records
RECURSIVE RecordSeqs(_)
RecordSeqs(n) ==
    IF n = 0 THEN {<<>>}
    ELSE RecordSeqs(n - 1)
         \cup {Append(rs, r) : rs \in {q \in RecordSeqs(n - 1) : Len(q) = n - 1},
                               r \in RecordSet}

\* the bodies of at most n lines
RECURSIVE BodySeqs(_)
BodySeqs(n) ==
    IF n = 0 THEN {<<>>}
    ELSE BodySeqs(n - 1)
         \cup {Append(ls, l) : ls \in {q \in BodySeqs(n - 1) : Len(q) = n - 1},
                               l \in BodyLines}


\* build_tree_from_keys is entered with a list of records; find_property_keys
\* returns no empty list
InitB ==
    /\ \E rs \in RecordSeqs(MaxRecords) : rs # <<>> /\ records = rs
    /\ const_name = ConstRoot
    /\ base_indent = 0
    /\ indent_step = 0
    /\ stack = <<>>
    /\ tree = <<>>
    /\ ri = 0
    /\ md_lines = <<>>
    /\ error = "none"
    /\ pcB = "build"

\* find_property_keys is entered with the lines extract_const_block returned
InitP ==
    /\ \E ls \in BodySeqs(MaxBodyLines) : ls # <<>> /\ block_lines = ls
    /\ const_name = ConstRoot
    /\ IdleB
    /\ error = "none"
    /\ pcB = "keys"

\* lines 50-78, with a record found
FindPropertyKeys ==
    /\ pcB = "keys"
    /\ KeyRecords(block_lines, 1) # <<>>
    /\ records' = KeyRecords(block_lines, 1)
    /\ pcB' = "build"
    /\ UNCHANGED <<base_indent, indent_step, stack, tree, ri, md_lines, error>>
    /\ UNCHANGED <<varsR, varsE, block_lines, const_name>>

\* lines 75-76
RaiseNoKeys ==
    /\ pcB = "keys"
    /\ KeyRecords(block_lines, 1) = <<>>
    /\ error' = "no_keys"
    /\ pcB' = "raised"
    /\ UNCHANGED <<records, base_indent, indent_step, stack, tree, ri, md_lines>>
    /\ UNCHANGED <<varsR, varsE, block_lines, const_name>>

\* lines 86-100
BuildStart ==
    /\ pcB = "build"
    /\ records # <<>>
    /\ tree' = (<<const_name>> :> <<>>)
    /\ base_indent' = BaseIndent(records)
    /\ indent_step' = IndentStep(records, BaseIndent(records))
    /\ stack' = <<[level |-> -1, node |-> <<const_name>>]>>
    /\ ri' = 0
    /\ pcB' = "loop"
    /\ UNCHANGED <<records, md_lines, error>>
    /\ UNCHANGED <<varsR, varsE, block_lines, const_name>>

\* lines 102-118: one turn of the loop, for the record after the ri done
BuildRecord ==
    /\ pcB = "loop" /\ ri < Len(records)
    /\ LET key == records[ri + 1].key
           level == LevelOf(records[ri + 1].indent, base_indent, indent_step)
           popped == PopStack(stack, level)
       IN  IF popped = <<>>
              THEN \* stack[-1] of an empty list
                   /\ error' = "IndexError"
                   /\ pcB' = "raised"
                   /\ stack' = popped
                   /\ UNCHANGED <<tree, ri>>
              ELSE LET parent == popped[Len(popped)].node
                   IN  /\ tree' = Attach(tree, parent, key)
                       /\ stack' = Append(popped, [level |-> level,
                                                   node |-> Append(parent, key)])
                       /\ ri' = ri + 1
                       /\ UNCHANGED <<error, pcB>>
    /\ UNCHANGED <<records, base_indent, indent_step, md_lines>>
    /\ UNCHANGED <<varsR, varsE, block_lines, const_name>>

\* line 120 and lines 154-155
Render ==
    /\ pcB = "loop" /\ ri = Len(records)
    /\ md_lines' = tree_to_md_lines(tree, <<const_name>>, <<>>, TRUE)
    /\ pcB' = "done"
    /\ UNCHANGED <<records, base_indent, indent_step, stack, tree, ri, error>>
    /\ UNCHANGED <<varsR, varsE, block_lines, const_name>>

NextB == BuildStart \/ BuildRecord \/ Render

NextP == FindPropertyKeys \/ RaiseNoKeys \/ BuildStart \/ BuildRecord \/ Render

InitBuild == InitB /\ IdleR /\ IdleE

InitPipeline == InitP /\ IdleR /\ IdleEP

SpecBuild == InitBuild /\ [][NextB]_vars

SpecPipeline == InitPipeline /\ [][NextP]_vars

-----------------------------------------------------------------------------
(* Properties of build_tree_from_keys and tree_to_md_lines.                *)

\* the path of record i when par[j] is the record that record j hangs under
\* (0: under the root)
RECURSIVE PathOf(_, _)
PathOf(par, i) ==
    IF i = 0 THEN <<const_name>> ELSE Append(PathOf(par, par[i]), records[i].key)

\* the keys of the records among the first i that hang under path p, each once,
\* in the order they first come
RECURSIVE ChildKeysUpTo(_, _, _)
ChildKeysUpTo(par, p, i) ==
    IF i = 0 THEN <<>>
    ELSE LET prev == ChildKeysUpTo(par, p, i - 1)
         IN  IF PathOf(par, par[i]) = p /\ records[i].key \notin Range(prev)
                THEN Append(prev, records[i].key)
                ELSE prev

\* the tree that has a node for every path of the first n records
TrieOf(par, n) ==
    [p \in {<<const_name>>} \cup {PathOf(par, i) : i \in 1..n} |-> ChildKeysUpTo(par, p, n)]

\* the depth the indentation of record i stands for, at two spaces a level
\* from the indentation of the first record
RegDepth(i) == 1 + ((records[i].indent - records[1].indent) \div 2)

\* the parent of record i in a pre-order listing: the last record before it
\* that is one level up
RegParent ==
    [i \in 1..Len(records) |->
        LET S == {j \in 1..(i - 1) : RegDepth(j) = RegDepth(i) - 1}
        IN  IF S = {} THEN 0 ELSE SeqMax(S)]

\* the records list a tree in pre-order, two spaces a level, no key twice
\* under one parent
IsRegularListing ==
    /\ records # <<>>
    /\ \A i \in 1..Len(records) :
          /\ records[i].indent >= records[1].indent
          /\ (records[i].indent - records[1].indent) % 2 = 0
    /\ \A i \in 1..(Len(records) - 1) : RegDepth(i + 1) <= RegDepth(i) + 1
    /\ \A i, j \in 1..Len(records) :
          (i < j /\ RegParent[i] = RegParent[j]) => records[i].key # records[j].key

\* C5: from the pre-order listing of a tree with unique sibling keys, indented
\* base + 2 * (depth - 1), build_tree_from_keys returns that tree: one node
\* for each record, under the parent and in the order of the listing.
C5_RoundTrip ==
    (pcB = "done" /\ IsRegularListing)
        => /\ tree = TrieOf(RegParent, Len(records))
           /\ Cardinality(DOMAIN tree) = Len(records) + 1
           /\ \A i \in 1..Len(records) : Len(PathOf(RegParent, i)) = RegDepth(i) + 1

C5_Witness ==
    /\ pcB = "done" /\ IsRegularListing
    /\ Len(records) = 3
    /\ records[1].indent = 0
    /\ RegDepth(3) = 3
    /\ tree[PathOf(RegParent, 2)] = <<records[3].key>>

\* the level the builder gives record i
LevelOfRecord(i) == LevelOf(records[i].indent, base_indent, indent_step)

\* C7: between records the stack is not empty, its bottom is the root at level
\* -1, its levels strictly increase, each entry holds a child of the entry
\* below, and its top is the node of the record just taken; stack[-1] never
\* fails.
C7_StackInvariant ==
    /\ error # "IndexError"
    /\ pcB \in {"loop", "done"}
         => /\ Len(stack) >= 1
            /\ stack[1] = [level |-> -1, node |-> <<const_name>>]
            /\ \A k \in 1..(Len(stack) - 1) :
                  /\ stack[k].level < stack[k + 1].level
                  /\ stack[k + 1].node \in DOMAIN tree
                  /\ SubSeq(stack[k + 1].node, 1, Len(stack[k + 1].node) - 1)
                        = stack[k].node
            /\ ri >= 1
                 => LET top == stack[Len(stack)]
                    IN  /\ Len(stack) >= 2
                        /\ top.level = LevelOfRecord(ri)
                        /\ top.node[Len(top.node)] = records[ri].key

C7_Witness ==
    /\ pcB = "loop" /\ ri = 3
    /\ \E i \in 1..3 : (records[i].indent - base_indent) % indent_step # 0
    /\ LevelOfRecord(1) = LevelOfRecord(2)
    /\ LevelOfRecord(3) < LevelOfRecord(2)
    /\ Len(stack) = 2

\* the record that record i hangs under, by the levels the builder gives
BuiltParent ==
    [i \in 1..Len(records) |->
        LET S == {j \in 1..(i - 1) : LevelOfRecord(j) < LevelOfRecord(i)}
        IN  IF S = {} THEN 0 ELSE SeqMax(S)]

\* C10: records with the same key under the same parent share one node, which
\* keeps the children and the place it had; so the tree is the tree of the
\* paths of the records taken, no node has a name twice, and there are no
\* more nodes below the root than records taken.
C10_MergeRule ==
    pcB \in {"loop", "done"}
        => /\ tree = TrieOf(BuiltParent, ri)
           /\ \A p \in DOMAIN tree :
                 \A a, b \in 1..Len(tree[p]) : a # b => tree[p][a] # tree[p][b]
           /\ Cardinality(DOMAIN tree) - 1 <= ri

C10_Witness ==
    /\ pcB = "done" /\ Len(records) = 3
    /\ PathOf(BuiltParent, 1) = PathOf(BuiltParent, 3)
    /\ BuiltParent[2] = 1
    /\ tree[PathOf(BuiltParent, 1)] = <<records[2].key>>
    /\ stack[Len(stack)].node = PathOf(BuiltParent, 1)
    /\ Cardinality(DOMAIN tree) = 3

C2Body == <<BodyFoo, BodyBar, BodyBaz, BodyBrace>>
KeyFoo == <<"f", "o", "o">>
KeyBar == <<"b", "a", "r">>
KeyBaz == <<"b", "a", "z">>

\* C2 as the spec states it: the body "  foo: 1", "  bar: {", "    baz: 2",
\* "  }" under the name root gives root -> {foo, bar}, bar -> {baz} and the
\* lines  root / +-- foo / L-- bar / (four spaces) L-- baz.
C2_RootChildrenUnprefixed ==
    (pcB = "done" /\ block_lines = C2Body /\ const_name = ConstRoot)
        => /\ tree = (<<ConstRoot>> :> <<KeyFoo, KeyBar>>
                      @@ <<ConstRoot, KeyFoo>> :> <<>>
                      @@ <<ConstRoot, KeyBar>> :> <<KeyBaz>>
                      @@ <<ConstRoot, KeyBar, KeyBaz>> :> <<>>)
           /\ md_lines = <<<<"r", "o", "o", "t">>,
                           <<"+", "-", "-", " ", "f", "o", "o">>,
                           <<"L", "-", "-", " ", "b", "a", "r">>,
                           <<" ", " ", " ", " ", "L", "-", "-", " ", "b", "a", "z">>>>

====
